---- MODULE Spec2Model ----
(***************************************************************************)
(* A model of np's release pipeline (source/index.js): the Listr task      *)
(* list built from the options, the one-shot rollback, the exit hook that  *)
(* calls it, and the publish task that sets isPublished.                   *)
(*                                                                         *)
(* Strings the code slices or searches are sequences of tokens: a version  *)
(* "n" is <<n>>, a tag name is the tag-version prefix followed by the      *)
(* version, an error message is a sequence of lines.                       *)
(***************************************************************************)
EXTENDS Integers, Sequences, FiniteSets, TLC

\* Versions the package descriptor may carry when the run starts: 1..MaxStartVersion.
MaxStartVersion == 2

\* Lines a command writes to one of its output streams: at most MaxLines.
MaxLines == 2

VARIABLES
    options,        \* the options record after the defaults are merged in
    pkg,            \* util.readPkg() at run start: version and private
    hasLockFile,    \* lock file found at run start
    isOnGitHub,     \* repoUrl is hosted on GitHub
    isExternalRegistry, \* npm.isExternalRegistry(pkg)
    tagVersionPrefix,   \* the configured tag-version prefix
    diskVersion,    \* version in package.json on disk
    commits,        \* commit history, oldest first; a commit is the version it recorded
    tags,           \* tag names, oldest first
    repo0,          \* commits and tags as they were when the run started
    published,      \* the registry accepted the package
    isPublished,    \* let isPublished
    hasError,       \* let hasError of the publish task
    idx,            \* position of the executor in tasks
    stagePc,        \* what the executor is doing with the stage at idx
    runState,       \* the promise of tasks.run()
    runError,       \* the error tasks.run() rejected with
    trace,          \* what the executor did, in order
    rbPromise,      \* onetime's cached return value: the call that ran the body
    rbPc,           \* position of each execution of the rollback body
    rbLatestTag,    \* const latestTag of each execution
    rbError,        \* the error the rollback promise rejected with
    rbLog,          \* the final console.log of each execution
    awaits,         \* the promise each caller of rollback() awaits
    observed,       \* how each caller saw its rollback() settle
    ehPc,           \* position of the exit hook handler
    procExited,     \* the process has exited
    deleteTagCalls, \* number of git.deleteTag calls
    removeLastCommitCalls, \* number of git.removeLastCommit calls
    rbSeen,         \* the three versions compared when git.deleteTag was called
    cpStdout,       \* exec: lines cp.stdout.pipe(split()) has still to deliver
    cpStderr,       \* exec: lines cp.stderr.pipe(split()) has still to deliver
    outDone,        \* exec: the observable of stdout has completed
    errDone,        \* exec: the observable of stderr has completed
    cp,             \* exec: the promise of execa(cmd, args)
    delivered,      \* exec: what the subscriber of the merged observable received
    outcome         \* exec: the terminal notification the subscriber received

config == <<options, pkg, hasLockFile, isOnGitHub, isExternalRegistry,
            tagVersionPrefix, repo0>>
repo == <<diskVersion, commits, tags>>
exec_vars == <<idx, stagePc, runState, runError, trace>>
pub_vars == <<published, isPublished, hasError>>
rb_vars == <<rbPromise, rbPc, rbLatestTag, rbError, rbLog, awaits, observed,
             deleteTagCalls, removeLastCommitCalls, rbSeen>>
adapter == <<cpStdout, cpStderr, outDone, errDone, cp, delivered, outcome>>
vars == <<config, repo, exec_vars, pub_vars, rb_vars, ehPc, procExited, adapter>>

(***************************************************************************)
(* Strings                                                                 *)
(***************************************************************************)
Version(n) == <<n>>

\* String.prototype.slice(n): drop the first n elements.
slice(s, n) == SubSeq(s, n + 1, Len(s))

\* String.prototype.includes
includes(s, needle) ==
    \E i \in 1..(Len(s) + 1) :
        /\ i + Len(needle) - 1 <= Len(s)
        /\ SubSeq(s, i, i + Len(needle) - 1) = needle

\* String.prototype.startsWith
startsWith(s, needle) ==
    /\ Len(needle) <= Len(s)
    /\ SubSeq(s, 1, Len(needle)) = needle

Error(message, stderr) == [message |-> message, stderr |-> stderr]
NoError == Error(<<>>, <<>>)

(***************************************************************************)
(* Options resolved at the top of the exported function                    *)
(***************************************************************************)
runTests == options.tests /\ ~options.yolo
\* runCleanup without yolo.
runCleanupIgnoresYolo == options.cleanup

runCleanup == options.cleanup /\ ~options.yolo
runPublish == options.publish /\ ~pkg.private

\* The version the bump stage is asked for.
input == pkg.version + 1

(***************************************************************************)
(* The task list                                                           *)
(***************************************************************************)
Prerequisite == "Prerequisite check"
Git == "Git"
Cleanup == "Cleanup"
InstallYarn == "Installing dependencies using Yarn"
InstallNpm == "Installing dependencies using npm"
TestNpm == "Running tests using npm"
TestYarn == "Running tests using Yarn"
BumpYarn == "Bumping version using Yarn"
BumpNpm == "Bumping version using npm"
Publish == "Publishing package"
Enable2fa == "Enabling two-factor authentication"
PushTags == "Pushing tags"
ReleaseDraft == "Creating release draft on GitHub"

\* The task list with the publish section added before the version bump.
tasksPublishBeforeBump ==
    <<Prerequisite, Git>>
    \o (IF runCleanup THEN <<Cleanup, InstallYarn, InstallNpm>> ELSE <<>>)
    \o (IF runTests THEN <<TestNpm, TestYarn>> ELSE <<>>)
    \o (IF runPublish
        THEN <<Publish>>
             \o (IF ~options.exists /\ ~pkg.private /\ ~isExternalRegistry
                 THEN <<Enable2fa>> ELSE <<>>)
        ELSE <<>>)
    \o <<BumpYarn, BumpNpm>>
    \o <<PushTags, ReleaseDraft>>

tasks ==
    <<Prerequisite, Git>>
    \o (IF runCleanup THEN <<Cleanup, InstallYarn, InstallNpm>> ELSE <<>>)
    \o (IF runTests THEN <<TestNpm, TestYarn>> ELSE <<>>)
    \o <<BumpYarn, BumpNpm>>
    \o (IF runPublish
        THEN <<Publish>>
             \o (IF ~options.exists /\ ~pkg.private /\ ~isExternalRegistry
                 THEN <<Enable2fa>> ELSE <<>>)
        ELSE <<>>)
    \o <<PushTags, ReleaseDraft>>

\* The enabled predicate of a stage (default: enabled).
enabled(title) ==
    CASE title = Prerequisite -> runPublish
      [] title \in {InstallYarn, TestYarn, BumpYarn} -> options.yarn = "true"
      [] title \in {InstallNpm, TestNpm, BumpNpm} -> options.yarn = "false"
      [] title = ReleaseDraft -> isOnGitHub
      [] OTHER -> TRUE

NoSkip == "run"
NoUpstream == "Upstream branch not found; not pushing."
NotPublished == "Couldn't publish package to npm; not pushing."

\* The skip predicate that does not ask for the upstream branch.
skipIgnoresUpstream(title, hasUpstream) ==
    CASE title = Cleanup -> IF hasLockFile THEN "skipped" ELSE NoSkip
      [] title = PushTags ->
            IF ~isPublished /\ runPublish THEN NotPublished ELSE NoSkip
      [] title = ReleaseDraft -> IF ~options.releaseDraft THEN "skipped" ELSE NoSkip
      [] OTHER -> NoSkip

\* The skip predicate of a stage; hasUpstream is the answer of git.hasUpstream().
skip(title, hasUpstream) ==
    CASE title = Cleanup -> IF hasLockFile THEN "skipped" ELSE NoSkip
      [] title = PushTags ->
            IF ~hasUpstream THEN NoUpstream
            ELSE IF ~isPublished /\ runPublish THEN NotPublished
            ELSE NoSkip
      [] title = ReleaseDraft -> IF ~options.releaseDraft THEN "skipped" ELSE NoSkip
      [] OTHER -> NoSkip

(***************************************************************************)
(* Errors of the stages' commands and the catchError handlers              *)
(***************************************************************************)
TestNotFound == <<"Command \"test\" not found">>
LockfileOutdated == <<"error Your lockfile needs to be updated">>
OutdatedMessage == <<"yarn.lock file is outdated. Run yarn, commit the updated lockfile and try again.">>

\* The errors the action of a stage may fail with before any catchError.
errorsOf(title) ==
    CASE title = TestYarn ->
            { Error(<<"Command failed: yarn test">>, <<"tests failed">>),
              Error(<<"Command failed: yarn test">> \o TestNotFound, <<"error">>) }
      [] title = InstallYarn ->
            { Error(<<"Command failed: yarn install">>, <<"network">>),
              Error(<<"Command failed: yarn install">>, LockfileOutdated \o <<"run yarn">>) }
      [] OTHER -> { Error(<<"failed", title>>, <<title>>) }

\* The handlers with the test-script message looked for at the start only.
catchErrorAtStart(title, error) ==
    CASE title = TestYarn ->
            IF startsWith(error.message, TestNotFound) THEN NoError ELSE error
      [] title = InstallYarn ->
            IF startsWith(error.stderr, LockfileOutdated)
            THEN Error(OutdatedMessage, <<>>) ELSE error
      [] OTHER -> error

\* What a stage's action ends with when its command fails with error:
\* NoError when the handler swallows it.
catchError(title, error) ==
    CASE title = TestYarn ->
            IF includes(error.message, TestNotFound) THEN NoError ELSE error
      [] title = InstallYarn ->
            IF startsWith(error.stderr, LockfileOutdated)
            THEN Error(OutdatedMessage, <<>>) ELSE error
      [] OTHER -> error

(***************************************************************************)
(* Version control (git-util) and the package descriptor                   *)
(***************************************************************************)
\* git.latestTag(): the most recent tag; fails when there is none.
latestTag(ts) == ts[Len(ts)]

\* git.deleteTag(name)
deleteTag(ts, name) == SelectSeq(ts, LAMBDA t : t # name)

\* git.removeLastCommit()
removeLastCommit(cs) == SubSeq(cs, 1, Len(cs) - 1)

\* util.getTagVersionPrefix(options)
getTagVersionPrefix == tagVersionPrefix

\* util.readPkg().version
readPkgVersion == Version(diskVersion)

(***************************************************************************)
(* Initial state: the options, the descriptor and the repository the run   *)
(* starts from, after the synchronous prologue of the exported function.   *)
(***************************************************************************)
Callers == {"publish", "exit"}

\* What the run finds around it. The three facts act on different stages
\* (Cleanup, two-factor authentication, release draft); each takes both values.
Environments ==
    { [hasLockFile |-> TRUE, isOnGitHub |-> TRUE, isExternalRegistry |-> FALSE],
      [hasLockFile |-> FALSE, isOnGitHub |-> FALSE, isExternalRegistry |-> TRUE] }
Prefixes == {<<>>, <<"v">>}

InitRun ==
    /\ options \in [publish : BOOLEAN, yarn : {"true", "false", "unset"},
                    cleanup : BOOLEAN, tests : BOOLEAN, yolo : BOOLEAN,
                    releaseDraft : BOOLEAN, exists : BOOLEAN]
    /\ pkg \in [version : 1..MaxStartVersion, private : BOOLEAN]
    /\ \E e \in Environments :
        /\ hasLockFile = e.hasLockFile
        /\ isOnGitHub = e.isOnGitHub
        /\ isExternalRegistry = e.isExternalRegistry
    /\ tagVersionPrefix \in Prefixes
    /\ diskVersion = pkg.version
    /\ commits = <<pkg.version>>
    /\ tags \in { <<>>, <<tagVersionPrefix \o Version(pkg.version)>> }
    /\ repo0 = [commits |-> commits, tags |-> tags]
    /\ published = FALSE
    /\ isPublished = FALSE
    /\ hasError = FALSE
    /\ idx = 1
    /\ stagePc = "enabled"
    /\ runState = "pending"
    /\ runError = NoError
    /\ trace = <<>>
    /\ rbPromise = "none"
    /\ rbPc = [c \in Callers |-> "idle"]
    /\ rbLatestTag = [c \in Callers |-> <<>>]
    /\ rbError = [c \in Callers |-> NoError]
    /\ rbLog = [c \in Callers |-> "none"]
    /\ awaits = [c \in Callers |-> "none"]
    /\ observed = [c \in Callers |-> "none"]
    /\ ehPc = "idle"
    /\ procExited = FALSE
    /\ deleteTagCalls = 0
    /\ removeLastCommitCalls = 0
    /\ rbSeen = <<>>

\* No command is observed through exec.
ExecIdle ==
    /\ cpStdout = <<>>
    /\ cpStderr = <<>>
    /\ outDone = FALSE
    /\ errDone = FALSE
    /\ cp = "none"
    /\ delivered = <<>>
    /\ outcome = "none"

Init == InitRun /\ ExecIdle

(***************************************************************************)
(* The rollback controller: onetime(async () => {...})                     *)
(***************************************************************************)
\* onetime that forgets it was called: every call runs the body again.
onetimeForgets(cache) == FALSE

\* onetime: has the wrapped function been called before?
onetimeCalled(cache) == cache # "none"

\* A call of rollback() by caller c: the first call starts the body and
\* caches its promise, every later call gets the cached promise.
rollback(c) ==
    IF onetimeCalled(rbPromise)
    THEN /\ awaits' = [awaits EXCEPT ![c] = rbPromise]
         /\ UNCHANGED <<rbPromise, rbPc>>
    ELSE /\ rbPromise' = c
         /\ rbPc' = [rbPc EXCEPT ![c] = "prefix"]
         /\ awaits' = [awaits EXCEPT ![c] = c]

settled(p) == p # "none" /\ rbPc[p] \in {"resolved", "rejected"}

\* The test without the comparison against the version at run start.
bumpedIgnoresStart(versionInLatestTag, onDisk, atStart) ==
    versionInLatestTag = onDisk

\* The test that guards the undo.
bumped(versionInLatestTag, onDisk, atStart) ==
    versionInLatestTag = onDisk /\ versionInLatestTag # atStart

\* await util.getTagVersionPrefix(options): outside the try block.
RbGetTagVersionPrefix(c) ==
    /\ ~procExited
    /\ rbPc[c] = "prefix"
    /\ \/ /\ rbPc' = [rbPc EXCEPT ![c] = "latestTag"]
          /\ UNCHANGED rbError
       \/ /\ rbPc' = [rbPc EXCEPT ![c] = "rejected"]
          /\ rbError' = [rbError EXCEPT ![c] = Error(<<"getTagVersionPrefix failed">>, <<>>)]
    /\ UNCHANGED <<adapter, config, repo, exec_vars, pub_vars, rbPromise, rbLatestTag, rbLog,
                   awaits, observed, deleteTagCalls, removeLastCommitCalls, rbSeen,
                   ehPc, procExited>>

\* await git.latestTag(): outside the try block.
RbLatestTag(c) ==
    /\ ~procExited
    /\ rbPc[c] = "latestTag"
    /\ \/ /\ tags # <<>>
          /\ rbLatestTag' = [rbLatestTag EXCEPT ![c] = latestTag(tags)]
          /\ rbPc' = [rbPc EXCEPT ![c] = "check"]
          /\ UNCHANGED rbError
       \/ /\ rbPc' = [rbPc EXCEPT ![c] = "rejected"]
          /\ rbError' = [rbError EXCEPT ![c] = Error(<<"latestTag failed">>, <<>>)]
          /\ UNCHANGED rbLatestTag
    /\ UNCHANGED <<adapter, config, repo, exec_vars, pub_vars, rbPromise, rbLog,
                   awaits, observed, deleteTagCalls, removeLastCommitCalls, rbSeen,
                   ehPc, procExited>>

\* The continuation after latestTag: slice, then inside try read the
\* descriptor and test; calls git.deleteTag when the test passes.
RbCheck(c) ==
    /\ ~procExited
    /\ rbPc[c] = "check"
    /\ LET versionInLatestTag == slice(rbLatestTag[c], Len(getTagVersionPrefix))
       IN \/ \* util.readPkg() throws: caught
             /\ rbPc' = [rbPc EXCEPT ![c] = "resolved"]
             /\ rbLog' = [rbLog EXCEPT ![c] = "couldnt"]
             /\ UNCHANGED <<deleteTagCalls, rbSeen>>
          \/ IF bumped(versionInLatestTag, readPkgVersion, Version(pkg.version))
             THEN /\ rbPc' = [rbPc EXCEPT ![c] = "deleteTag"]
                  /\ deleteTagCalls' = deleteTagCalls + 1
                  /\ rbSeen' = Append(rbSeen, [latestTag |-> rbLatestTag[c],
                                               prefix |-> getTagVersionPrefix,
                                               disk |-> diskVersion,
                                               start |-> pkg.version])
                  /\ UNCHANGED rbLog
             ELSE /\ rbPc' = [rbPc EXCEPT ![c] = "resolved"]
                  /\ rbLog' = [rbLog EXCEPT ![c] = "success"]
                  /\ UNCHANGED <<deleteTagCalls, rbSeen>>
    /\ UNCHANGED <<adapter, config, repo, exec_vars, pub_vars, rbPromise, rbLatestTag, rbError,
                   awaits, observed, removeLastCommitCalls, ehPc, procExited>>

\* await git.deleteTag(latestTag); on success git.removeLastCommit() is called.
RbDeleteTag(c) ==
    /\ ~procExited
    /\ rbPc[c] = "deleteTag"
    /\ \/ /\ \E i \in 1..Len(tags) : tags[i] = rbLatestTag[c]
          /\ tags' = deleteTag(tags, rbLatestTag[c])
          /\ rbPc' = [rbPc EXCEPT ![c] = "removeLastCommit"]
          /\ removeLastCommitCalls' = removeLastCommitCalls + 1
          /\ UNCHANGED rbLog
       \/ /\ rbPc' = [rbPc EXCEPT ![c] = "resolved"]
          /\ rbLog' = [rbLog EXCEPT ![c] = "couldnt"]
          /\ UNCHANGED <<tags, removeLastCommitCalls>>
    /\ UNCHANGED <<adapter, config, diskVersion, commits, exec_vars, pub_vars, rbPromise,
                   rbLatestTag, rbError, awaits, observed, deleteTagCalls, rbSeen,
                   ehPc, procExited>>

\* await git.removeLastCommit(), then the success message.
RbRemoveLastCommit(c) ==
    /\ ~procExited
    /\ rbPc[c] = "removeLastCommit"
    /\ \/ /\ Len(commits) > 1
          /\ commits' = removeLastCommit(commits)
          /\ diskVersion' = commits[Len(commits) - 1]
          /\ rbLog' = [rbLog EXCEPT ![c] = "success"]
       \/ /\ rbLog' = [rbLog EXCEPT ![c] = "couldnt"]
          /\ UNCHANGED <<commits, diskVersion>>
    /\ rbPc' = [rbPc EXCEPT ![c] = "resolved"]
    /\ UNCHANGED <<adapter, config, tags, exec_vars, pub_vars, rbPromise, rbLatestTag, rbError,
                   awaits, observed, deleteTagCalls, removeLastCommitCalls, rbSeen,
                   ehPc, procExited>>

(***************************************************************************)
(* The task executor: tasks.run()                                          *)
(***************************************************************************)
\* exitOnError switched off: the executor goes on after a failure.
exitOnErrorOff == FALSE

\* Listr's exitOnError, left at its default by the options passed to new Listr.
exitOnError == TRUE

title == tasks[idx]

Running == ~procExited /\ runState = "pending" /\ idx <= Len(tasks)

\* The executor's move to the next stage, with events logged.
Advance(events) ==
    /\ idx' = idx + 1
    /\ stagePc' = "enabled"
    /\ trace' = trace \o events
    /\ UNCHANGED <<runState, runError>>

\* A stage's action failed with error, after the events logged.
Fail(events, error) ==
    IF exitOnError
    THEN /\ runState' = "rejected"
         /\ runError' = error
         /\ trace' = trace \o events \o << <<"fail", title, error>> >>
         /\ UNCHANGED <<idx, stagePc>>
    ELSE /\ idx' = idx + 1
         /\ stagePc' = "enabled"
         /\ runError' = error
         /\ trace' = trace \o events \o << <<"fail", title, error>> >>
         /\ UNCHANGED runState

\* The stage's enabled predicate is evaluated.
EvalEnabled ==
    /\ Running
    /\ stagePc = "enabled"
    /\ IF enabled(title)
       THEN /\ stagePc' = "skip"
            /\ trace' = Append(trace, <<"enabled", title>>)
            /\ UNCHANGED <<idx, runState, runError>>
       ELSE Advance(<< <<"enabled", title>> >>)
    /\ UNCHANGED <<adapter, config, repo, pub_vars, rb_vars, ehPc, procExited>>

\* The stage's skip predicate is evaluated; the action starts unless it
\* gives a reason.
EvalSkip ==
    /\ Running
    /\ stagePc = "skip"
    /\ \E hasUpstream \in BOOLEAN :
        LET reason == skip(title, hasUpstream)
            asked == IF title = PushTags
                     THEN << <<"skip", title>>, <<"hasUpstream", title, hasUpstream>> >>
                     ELSE << <<"skip", title>> >>
        IN IF reason # NoSkip
           THEN Advance(asked \o << <<"skipped", title, reason>> >>)
           ELSE /\ stagePc' = "task"
                /\ trace' = trace \o asked \o << <<"task", title>> >>
                /\ UNCHANGED <<idx, runState, runError>>
    /\ UNCHANGED <<adapter, config, repo, pub_vars, rb_vars, ehPc, procExited>>

\* The action of a stage completes.
TaskOk ==
    /\ Running
    /\ \/ stagePc = "task" /\ title \notin {BumpYarn, BumpNpm, Publish}
       \/ stagePc = "cmdDone" /\ title \in {BumpYarn, BumpNpm}
    /\ Advance(<< <<"done", title>> >>)
    /\ UNCHANGED <<adapter, config, repo, pub_vars, rb_vars, ehPc, procExited>>

\* The command of a stage other than publish fails; the stage's catchError
\* handler, if it has one, decides what the action ends with.
TaskFail ==
    /\ Running
    /\ stagePc = "task"
    /\ title # Publish
    /\ \E error \in errorsOf(title) :
        LET result == catchError(title, error)
        IN IF result = NoError
           THEN Advance(<< <<"error", title, error>>, <<"done", title>> >>)
           ELSE Fail(<< <<"error", title, error>> >>, result)
    /\ UNCHANGED <<adapter, config, repo, pub_vars, rb_vars, ehPc, procExited>>

\* npm version / yarn version: writes the descriptor, commits, tags.
BumpCmd ==
    /\ Running
    /\ stagePc = "task"
    /\ title \in {BumpYarn, BumpNpm}
    /\ diskVersion' = input
    /\ commits' = Append(commits, input)
    /\ tags' = Append(tags, tagVersionPrefix \o Version(input))
    /\ stagePc' = "cmdDone"
    /\ trace' = Append(trace, <<"cmd", title>>)
    /\ UNCHANGED <<adapter, config, idx, runState, runError, pub_vars, rb_vars,
                   ehPc, procExited>>

\* Every stage has run: tasks.run() resolves.
RunResolve ==
    /\ ~procExited
    /\ runState = "pending"
    /\ idx > Len(tasks)
    /\ runState' = IF runError = NoError THEN "resolved" ELSE "rejected"
    /\ UNCHANGED <<adapter, config, repo, idx, stagePc, runError, trace, pub_vars, rb_vars,
                   ehPc, procExited>>

(***************************************************************************)
(* The publish task                                                        *)
(***************************************************************************)
PublishError == Error(<<"npm publish failed">>, <<"npm ERR!">>)

\* new Error(`Error publishing package:\n${error.message}\n\nThe project was rolled back ...`)
Wrapped(error) ==
    Error(<<"Error publishing package:">> \o error.message
          \o <<"The project was rolled back to its previous state.">>, <<>>)

\* finalize that forgets hasError.
finalizeIgnoresError == TRUE

\* finalize(() => { isPublished = !hasError; }): the value assigned.
finalize == ~hasError

\* The publish command succeeds: the registry has the package.
PublishCmdOk ==
    /\ Running
    /\ stagePc = "task"
    /\ title = Publish
    /\ published' = TRUE
    /\ stagePc' = "cmdDone"
    /\ UNCHANGED <<adapter, config, repo, idx, runState, runError, trace, isPublished, hasError,
                   rb_vars, ehPc, procExited>>

\* The observable of publish() completes; finalize sets isPublished.
PublishComplete ==
    /\ Running
    /\ stagePc = "cmdDone"
    /\ title = Publish
    /\ isPublished' = finalize
    /\ Advance(<< <<"done", title>> >>)
    /\ UNCHANGED <<adapter, config, repo, published, hasError, rbPromise, rbPc, rbLatestTag,
                   rbError, rbLog, awaits, observed, deleteTagCalls,
                   removeLastCommitCalls, rbSeen, ehPc, procExited>>

\* The observable of publish() errors: catchError sets hasError and calls rollback().
PublishCatch ==
    /\ Running
    /\ stagePc = "task"
    /\ title = Publish
    /\ hasError' = TRUE
    /\ rollback("publish")
    /\ stagePc' = "awaitRollback"
    /\ UNCHANGED <<adapter, config, repo, idx, runState, runError, trace, published, isPublished,
                   rbLatestTag, rbError, rbLog, observed, deleteTagCalls,
                   removeLastCommitCalls, rbSeen, ehPc, procExited>>

\* await rollback() returns or throws in the catchError handler; the handler
\* throws, finalize sets isPublished, the action fails.
PublishRethrow ==
    /\ Running
    /\ stagePc = "awaitRollback"
    /\ settled(awaits["publish"])
    /\ LET p == awaits["publish"]
       IN /\ observed' = [observed EXCEPT !["publish"] = rbPc[p]]
          /\ Fail(<<>>, IF rbPc[p] = "resolved" THEN Wrapped(PublishError) ELSE rbError[p])
    /\ isPublished' = finalize
    /\ UNCHANGED <<adapter, config, repo, published, hasError, rbPromise, rbPc, rbLatestTag,
                   rbError, rbLog, awaits, deleteTagCalls, removeLastCommitCalls,
                   rbSeen, ehPc, procExited>>

(***************************************************************************)
(* The exit hook                                                           *)
(***************************************************************************)
\* The test without runPublish.
exitHookIgnoresRunPublish == ~isPublished

\* The test of the exit hook handler.
exitHookRollsBack == ~isPublished /\ runPublish

\* The process is asked to terminate: the handler runs.
ExitHook ==
    /\ ~procExited
    /\ ehPc = "idle"
    /\ IF exitHookRollsBack
       THEN /\ rollback("exit")
            /\ ehPc' = "awaiting"
       ELSE /\ ehPc' = "returned"
            /\ UNCHANGED <<rbPromise, rbPc, awaits>>
    /\ UNCHANGED <<adapter, config, repo, exec_vars, pub_vars, rbLatestTag, rbError, rbLog,
                   observed, deleteTagCalls, removeLastCommitCalls, rbSeen, procExited>>

\* rollback() called without await: callback() follows at once.
rollbackNotAwaited(p) == p # "none"

\* May the handler go on to callback()?
rollbackAwaited(p) == settled(p)

\* await rollback() returns: callback() is called; or it throws and the
\* async function ends without calling callback.
ExitHookResume ==
    /\ ~procExited
    /\ ehPc = "awaiting"
    /\ rollbackAwaited(awaits["exit"])
    /\ LET p == awaits["exit"]
       IN /\ observed' = [observed EXCEPT !["exit"] = rbPc[p]]
          /\ ehPc' = IF rbPc[p] = "rejected" THEN "threw" ELSE "called"
    /\ UNCHANGED <<adapter, config, repo, exec_vars, pub_vars, rbPromise, rbPc, rbLatestTag,
                   rbError, rbLog, awaits, deleteTagCalls, removeLastCommitCalls,
                   rbSeen, procExited>>

\* The hook's callback was called: the process exits.
ProcessExit ==
    /\ ~procExited
    /\ ehPc = "called"
    /\ procExited' = TRUE
    /\ UNCHANGED <<adapter, config, repo, exec_vars, pub_vars, rb_vars, ehPc>>

(***************************************************************************)
(* The exec adapter: merge(stdout lines, stderr lines, cp).pipe(filter)    *)
(***************************************************************************)
\* The text of an output line; "" is an empty line.
Lines == {"line", ""}

\* Sequences of at most n elements of S.
SeqUpTo(S, n) == UNION {[1..k -> S] : k \in 0..n}

\* The default run, with one command observed through exec: its output on
\* both streams still to come, its promise pending.
InitExec ==
    /\ InitRun
    /\ options = [publish |-> TRUE, yarn |-> "false", cleanup |-> TRUE,
                  tests |-> TRUE, yolo |-> FALSE, releaseDraft |-> TRUE,
                  exists |-> FALSE]
    /\ pkg = [version |-> 1, private |-> FALSE]
    /\ hasLockFile
    /\ tagVersionPrefix = <<"v">>
    /\ tags # <<>>
    /\ cpStdout \in SeqUpTo(Lines, MaxLines)
    /\ cpStderr \in SeqUpTo(Lines, MaxLines)
    /\ outDone = FALSE
    /\ errDone = FALSE
    /\ cp = "pending"
    /\ delivered = <<>>
    /\ outcome = "none"

\* filter(Boolean): what passes of a value.
filter(value) == IF value = "" THEN <<>> ELSE <<value>>

\* merge completes when a source completes and the other two have.
mergeCompletes(a, b) == a /\ b

\* The split stream of stdout emits its next line.
StdoutLine ==
    /\ outcome = "none"
    /\ cpStdout # <<>>
    /\ delivered' = delivered \o filter(Head(cpStdout))
    /\ cpStdout' = Tail(cpStdout)
    /\ UNCHANGED <<config, repo, exec_vars, pub_vars, rb_vars, ehPc, procExited,
                   cpStderr, outDone, errDone, cp, outcome>>

\* The split stream of stdout ends: its observable completes.
StdoutEnd ==
    /\ outcome = "none"
    /\ cpStdout = <<>>
    /\ ~outDone
    /\ outDone' = TRUE
    /\ outcome' = IF mergeCompletes(errDone, cp = "resolved") THEN "complete" ELSE "none"
    /\ UNCHANGED <<config, repo, exec_vars, pub_vars, rb_vars, ehPc, procExited,
                   cpStdout, cpStderr, errDone, cp, delivered>>

\* The split stream of stderr emits its next line.
StderrLine ==
    /\ outcome = "none"
    /\ cpStderr # <<>>
    /\ delivered' = delivered \o filter(Head(cpStderr))
    /\ cpStderr' = Tail(cpStderr)
    /\ UNCHANGED <<config, repo, exec_vars, pub_vars, rb_vars, ehPc, procExited,
                   cpStdout, outDone, errDone, cp, outcome>>

\* The split stream of stderr ends: its observable completes.
StderrEnd ==
    /\ outcome = "none"
    /\ cpStderr = <<>>
    /\ ~errDone
    /\ errDone' = TRUE
    /\ outcome' = IF mergeCompletes(outDone, cp = "resolved") THEN "complete" ELSE "none"
    /\ UNCHANGED <<config, repo, exec_vars, pub_vars, rb_vars, ehPc, procExited,
                   cpStdout, cpStderr, outDone, cp, delivered>>

\* The promise of execa resolves: its value is emitted and the source completes.
CpResolve ==
    /\ outcome = "none"
    /\ cp = "pending"
    /\ cp' = "resolved"
    /\ delivered' = delivered \o filter("result")
    /\ outcome' = IF mergeCompletes(outDone, errDone) THEN "complete" ELSE "none"
    /\ UNCHANGED <<config, repo, exec_vars, pub_vars, rb_vars, ehPc, procExited,
                   cpStdout, cpStderr, outDone, errDone>>

\* The promise of execa rejects: merge forwards the error at once and
\* unsubscribes from the two streams.
CpReject ==
    /\ outcome = "none"
    /\ cp = "pending"
    /\ cp' = "rejected"
    /\ outcome' = "error"
    /\ UNCHANGED <<config, repo, exec_vars, pub_vars, rb_vars, ehPc, procExited,
                   cpStdout, cpStderr, outDone, errDone, delivered>>

NextExec ==
    \/ StdoutLine
    \/ StdoutEnd
    \/ StderrLine
    \/ StderrEnd
    \/ CpResolve
    \/ CpReject

SpecExec == InitExec /\ [][NextExec]_vars

Next ==
    \/ EvalEnabled
    \/ EvalSkip
    \/ TaskOk
    \/ TaskFail
    \/ BumpCmd
    \/ RunResolve
    \/ PublishCmdOk
    \/ PublishComplete
    \/ PublishCatch
    \/ PublishRethrow
    \/ \E c \in Callers : RbGetTagVersionPrefix(c)
    \/ \E c \in Callers : RbLatestTag(c)
    \/ \E c \in Callers : RbCheck(c)
    \/ \E c \in Callers : RbDeleteTag(c)
    \/ \E c \in Callers : RbRemoveLastCommit(c)
    \/ ExitHook
    \/ ExitHookResume
    \/ ProcessExit

Spec == Init /\ [][Next]_vars

(***************************************************************************)
(* Properties                                                              *)
(***************************************************************************)
InFlight == {"prefix", "latestTag", "check", "deleteTag", "removeLastCommit"}
BumpTag == tagVersionPrefix \o Version(input)
BumpRan == \E i \in 1..Len(trace) : trace[i][1] = "cmd"
PublishFailed == runState = "rejected" /\ hasError
Has(seq, x) == \E i \in 1..Len(seq) : seq[i] = x

\* C1: however often rollback() is called, git.deleteTag and
\* git.removeLastCommit are each called at most once, and every caller sees
\* the promise settle the way the first call's body settled.
C1_RollbackOnce ==
    /\ deleteTagCalls <= 1
    /\ removeLastCommitCalls <= 1
    /\ \A c \in Callers :
        /\ awaits[c] # "none" => awaits[c] = rbPromise
        /\ observed[c] # "none" => observed[c] = rbPc[rbPromise]

\* Both call sites called rollback(), both saw it settle, the undo ran.
C1_Witness ==
    /\ observed["publish"] = "resolved"
    /\ observed["exit"] = "resolved"
    /\ deleteTagCalls = 1
    /\ removeLastCommitCalls = 1

\* C2: git.deleteTag (and after it git.removeLastCommit) is called only when
\* the latest tag without its prefix equals the version on disk at that
\* moment and differs from the version read at run start; without a bump in
\* this run nothing is deleted.
C2_UndoOnlyWhenBumped ==
    /\ \A i \in 1..Len(rbSeen) :
        /\ slice(rbSeen[i].latestTag, Len(rbSeen[i].prefix)) = Version(rbSeen[i].disk)
        /\ slice(rbSeen[i].latestTag, Len(rbSeen[i].prefix)) # Version(rbSeen[i].start)
    /\ deleteTagCalls = Len(rbSeen)
    /\ removeLastCommitCalls <= deleteTagCalls
    /\ (~BumpRan => deleteTagCalls = 0 /\ tags = repo0.tags /\ commits = repo0.commits)
    /\ \A c \in Callers :
        rbPc[c] = "deleteTag" =>
            /\ slice(rbLatestTag[c], Len(tagVersionPrefix)) = Version(diskVersion)
            /\ diskVersion # pkg.version

\* Publish failed without a bump in this run, the latest tag carries the
\* version on disk, and rollback ran to its end without deleting anything.
C2_Witness ==
    /\ PublishFailed
    /\ ~BumpRan
    /\ tags # <<>>
    /\ slice(latestTag(tags), Len(tagVersionPrefix)) = Version(diskVersion)
    /\ observed["publish"] = "resolved"
    /\ rbLog[rbPromise] = "success"
    /\ deleteTagCalls = 0

\* C3: after a run whose publish stage failed, the commits and the tags are
\* those the run started with.
C3_FailedPublishRestoresRepo ==
    PublishFailed => commits = repo0.commits /\ tags = repo0.tags

\* C4: with options.publish false the rollback body never runs.
C4_NoRollbackWithoutPublish ==
    ~options.publish =>
        /\ rbPromise = "none"
        /\ \A c \in Callers : rbPc[c] = "idle" /\ awaits[c] = "none"
        /\ deleteTagCalls = 0
        /\ removeLastCommitCalls = 0

\* publish=false, a stage failed after the bump, and the exit hook has run.
C4_Witness ==
    /\ ~options.publish
    /\ BumpRan
    /\ runState = "rejected"
    /\ ehPc = "returned"

\* C5: the promise of rollback() never rejects.
C5_RollbackNeverRejects ==
    \A c \in Callers : rbPc[c] # "rejected"

\* C6: when the publish stage failed, tasks.run() rejects with the wrapped
\* publish error.
C6_WrappedPublishError ==
    PublishFailed => runError = Wrapped(PublishError)

\* C7: the exit handler that finds isPublished false and runPublish true calls
\* rollback() (it returns without doing so only when publishing is not to be
\* run or isPublished is true); callback() is called, and the process exits,
\* only after that rollback has settled; the process never exits with a
\* rollback in flight.
C7_ExitWaitsForRollback ==
    /\ ehPc = "returned" => ~runPublish \/ isPublished
    /\ ehPc \in {"awaiting", "called", "threw"} =>
            /\ awaits["exit"] # "none"
            /\ rbPc[awaits["exit"]] # "idle"
    /\ ehPc = "called" \/ procExited =>
            /\ settled(awaits["exit"])
            /\ observed["exit"] = "resolved"
    /\ procExited => \A c \in Callers : rbPc[c] \notin InFlight

\* The hook fired while the bump was tagged, the rollback undid it, callback()
\* was called and the process exited.
C7_Witness ==
    /\ procExited
    /\ awaits["exit"] = "exit"
    /\ deleteTagCalls = 1
    /\ rbLog["exit"] = "success"

\* C8: the exit handler never returns on its no-op branch leaving the hook's
\* callback uncalled.
C8_NoopSignalsCompletion ==
    ehPc # "returned"

\* C9: the package is never published with the bump's tag or commit removed.
C9_NoUndoAfterPublish ==
    published /\ BumpRan =>
        /\ Has(tags, BumpTag)
        /\ commits = Append(repo0.commits, input)

\* C10: a failure of a stage's action is the last thing the executor does:
\* no predicate and no action follows it, no stage is run twice, and
\* tasks.run() rejects with that failure.
C10_AbortOnFailure ==
    /\ \A i \in 1..Len(trace) :
        trace[i][1] = "fail" =>
            /\ i = Len(trace)
            /\ runState = "rejected"
            /\ runError = trace[i][3]
    /\ runState = "rejected" => Len(trace) > 0 /\ trace[Len(trace)][1] = "fail"
    /\ LET started == {i \in 1..Len(trace) : trace[i][1] = "task"}
       IN Cardinality({trace[i][2] : i \in started}) = Cardinality(started)

\* The version bump failed: the stages after it were never touched.
C10_Witness ==
    /\ runState = "rejected"
    /\ trace[Len(trace)][1] = "fail"
    /\ trace[Len(trace)][2] = BumpNpm
    /\ idx < Len(tasks)

\* Events of a kind, or of a kind and a stage, in the executor's log.
Logged(kind, stage) ==
    \E i \in 1..Len(trace) : trace[i][1] = kind /\ trace[i][2] = stage
Touched(stage) == \E i \in 1..Len(trace) : trace[i][2] = stage

\* C11: with Yarn, a failure of the test command whose message contains
\* 'Command "test" not found' ends the stage as done and the executor goes on
\* to the version bump; any other failure of it rejects tasks.run().
C11_YarnTestNotFound ==
    \A i \in 1..Len(trace) :
        trace[i][1] = "error" /\ trace[i][2] = TestYarn =>
            IF includes(trace[i][3].message, TestNotFound)
            THEN /\ trace[i + 1] = <<"done", TestYarn>>
                 /\ i + 2 <= Len(trace) => trace[i + 2] = <<"enabled", BumpYarn>>
                 /\ runState = "rejected" => Len(trace) > i + 1
            ELSE /\ trace[i + 1][1] = "fail"
                 /\ trace[i + 1][2] = TestYarn
                 /\ Len(trace) = i + 1
                 /\ runState = "rejected"
                 /\ runError = trace[i][3]

\* yarn test failed for want of a test script and the version was bumped.
C11_Witness ==
    /\ options.yarn = "true"
    /\ \E i \in 1..Len(trace) :
        /\ trace[i][1] = "error"
        /\ trace[i][2] = TestYarn
        /\ includes(trace[i][3].message, TestNotFound)
    /\ Logged("cmd", BumpYarn)

\* C12: when git.hasUpstream() answers false the tag-push stage is skipped
\* with the no-upstream reason and git.push() is not called, whatever
\* isPublished and runPublish are.
C12_NoUpstreamSkips ==
    \A i \in 1..Len(trace) :
        trace[i][1] = "hasUpstream" /\ ~trace[i][3] =>
            /\ trace[i + 1] = <<"skipped", PushTags, NoUpstream>>
            /\ ~Logged("task", PushTags)

\* The package was published and the push was skipped for want of an upstream.
C12_Witness ==
    /\ isPublished
    /\ \E i \in 1..Len(trace) : trace[i][1] = "hasUpstream" /\ ~trace[i][3]
    /\ runState = "resolved"

\* C13 as stated: after a failed publish the tag-push stage has reported a
\* skip reason other than the no-upstream one, and has not pushed.
C13_DistinctSkipReason ==
    PublishFailed =>
        /\ \E i \in 1..Len(trace) :
            /\ trace[i][1] = "skipped"
            /\ trace[i][2] = PushTags
            /\ trace[i][3] # NoUpstream
        /\ ~Logged("task", PushTags)

\* C13 as amended: while publish is to be run and has not succeeded the
\* tag-push stage is not reached: none of its predicates is evaluated, it
\* reports no skip reason and git.push() is not called.
C13_PushNotReached ==
    runPublish /\ ~isPublished => ~Touched(PushTags)

\* Publish failed and the rollback settled: the run is over.
C13_Witness ==
    /\ PublishFailed
    /\ observed["publish"] = "resolved"
    /\ BumpRan

\* C14: the cleanup and install stages are in the list iff options.cleanup
\* and not options.yolo, the test stages iff options.tests and not
\* options.yolo, and only stages in the list are ever run.
C14_SectionsFromOptions ==
    /\ \A t \in {Cleanup, InstallYarn, InstallNpm} :
        /\ Has(tasks, t) <=> (options.cleanup /\ ~options.yolo)
        /\ Touched(t) => options.cleanup /\ ~options.yolo
    /\ \A t \in {TestNpm, TestYarn} :
        /\ Has(tasks, t) <=> (options.tests /\ ~options.yolo)
        /\ Touched(t) => options.tests /\ ~options.yolo

\* yolo with cleanup and tests both set: the run went from the git checks
\* straight to the version bump.
C14_Witness ==
    /\ options.yolo
    /\ options.cleanup
    /\ options.tests
    /\ BumpRan
    /\ ~Touched(Cleanup)
    /\ ~Touched(TestNpm)

\* C15 as stated: the release draft action runs only with isPublished true.
C15_DraftOnlyAfterPublish ==
    Logged("task", ReleaseDraft) => isPublished

\* C15 as amended: in a run that is to publish, the release draft action
\* runs only after the publish stage succeeded.
C15_DraftAfterPublishWhenRun ==
    runPublish /\ Logged("task", ReleaseDraft) =>
        /\ isPublished
        /\ published
        /\ Logged("done", Publish)

\* A run that published and then drafted the release.
C15_Witness ==
    /\ runPublish
    /\ Logged("done", ReleaseDraft)
    /\ runState = "resolved"

\* The sections in their fixed order.
Section(t) ==
    CASE t = Prerequisite -> 1
      [] t = Git -> 2
      [] t = Cleanup -> 3
      [] t \in {InstallYarn, InstallNpm} -> 4
      [] t \in {TestNpm, TestYarn} -> 5
      [] t \in {BumpYarn, BumpNpm} -> 6
      [] t = Publish -> 7
      [] t = Enable2fa -> 8
      [] t = PushTags -> 9
      [] t = ReleaseDraft -> 10

\* C16: the actions start in the order of the sections, and an action that
\* has started settles (done or failed) before anything of another stage is
\* evaluated or started.
C16_SequentialInOrder ==
    /\ LET started == SelectSeq(trace, LAMBDA e : e[1] = "task")
       IN \A k \in 1..(Len(started) - 1) :
            Section(started[k][2]) < Section(started[k + 1][2])
    /\ \A i \in 1..(Len(trace) - 1) :
        /\ trace[i][1] = "task" =>
            /\ trace[i + 1][2] = trace[i][2]
            /\ trace[i + 1][1] \in {"cmd", "error", "done", "fail"}
        /\ trace[i][1] \in {"cmd", "error"} =>
            /\ trace[i + 1][2] = trace[i][2]
            /\ trace[i + 1][1] \in {"done", "fail"}
        /\ trace[i + 1][1] = "enabled" =>
            trace[i][1] \in {"enabled", "skipped", "done"}
    /\ runState = "pending" /\ stagePc \in {"task", "cmdDone", "awaitRollback"} =>
            /\ Len(trace) > 0
            /\ trace[Len(trace)][2] = title
            /\ trace[Len(trace)][1] \in {"task", "cmd"}

\* A complete run through bump, publish, push and release draft.
C16_Witness ==
    /\ runState = "resolved"
    /\ Logged("done", Git)
    /\ Logged("done", BumpNpm)
    /\ Logged("done", Publish)
    /\ Logged("done", PushTags)
    /\ Logged("done", ReleaseDraft)

\* C17: isPublished is true exactly when the publish stage has completed on
\* its success path (so it starts false and is never set back), and it is
\* false whenever the publish error handler ran.
C17_PublishState ==
    /\ isPublished <=> Logged("done", Publish)
    /\ isPublished => published /\ ~hasError
    /\ hasError => ~isPublished

\* Publish failed, the rollback undid the bump, isPublished is false.
C17_Witness ==
    /\ PublishFailed
    /\ observed["publish"] = "resolved"
    /\ deleteTagCalls = 1
    /\ ~isPublished

\* C19: after a failure of the prerequisite check or of the git checks
\* nothing else of the list runs, and no tag is deleted and no commit
\* removed, also when the exit hook then calls rollback().
C19_ChecksFailNoUndo ==
    \A i \in 1..Len(trace) :
        trace[i][1] = "fail" /\ trace[i][2] \in {Prerequisite, Git} =>
            /\ i = Len(trace)
            /\ runState = "rejected"
            /\ deleteTagCalls = 0
            /\ removeLastCommitCalls = 0
            /\ tags = repo0.tags
            /\ commits = repo0.commits

\* The git checks failed, the exit hook called rollback(), which ran to its
\* end over a repository whose latest tag carries the version on disk.
C19_Witness ==
    /\ Logged("fail", Git)
    /\ ehPc = "called"
    /\ rbLog["exit"] = "success"
    /\ tags # <<>>

\* C20: in a run that is to publish, isPublished is true whenever the skip
\* predicate of the tag-push stage is evaluated; the 'Couldn't publish' reason
\* is never given and git.push() is never called after a failed publish.
C20_PushOnlyAfterPublish ==
    /\ runPublish /\ Logged("skip", PushTags) => isPublished
    /\ \A i \in 1..Len(trace) :
        ~(trace[i][1] = "skipped" /\ trace[i][2] = PushTags /\ trace[i][3] = NotPublished)
    /\ hasError => ~Touched(PushTags)

\* A run that published and pushed.
C20_Witness ==
    /\ runPublish
    /\ Logged("task", PushTags)
    /\ isPublished

\* C18: the subscriber of exec() receives the terminal notification
\* (complete or error) only after every line of stdout and of stderr has been
\* delivered to it: none is left undelivered behind it.
C18_OutcomeAfterLastLine ==
    outcome # "none" => cpStdout = <<>> /\ cpStderr = <<>>

====
